---- MODULE Spec2Model ----
(***************************************************************************)
(* Model of datamodel_code_generator/__main__.py: loading of the           *)
(* [tool.datamodel-codegen] section, the option defaults of main(), the    *)
(* Config validators, the resource loading and the exit-code mapping of    *)
(* main().                                                                 *)
(*                                                                         *)
(* Values are records tagged with their Python type in field t.  Text is   *)
(* a sequence of tokens: characters for header strings, path segments for  *)
(* paths, <<scheme, "://", rest>> for URLs.                                *)
(***************************************************************************)
EXTENDS Integers, Sequences, FiniteSets, TLC

VARIABLES
    pc,             \* position of the program
    pyprojectFile,  \* is <root>/pyproject.toml a file
    tomlSection,    \* the table [tool.datamodel-codegen] of the file
    cli,            \* options given on the command line
    pyproject,      \* module global `pyproject`
    args,           \* parameters of main()
    fieldValues,    \* the values Config is validating
    config,         \* local `config` of main()
    streams,        \* state of the stream of each resource option
    extra,          \* local `extra_template_data` of main()
    aliasesVar,     \* local `aliases` of main()
    stdinRead,      \* was sys.stdin.read() called
    generateArgs,   \* keyword arguments generate() was called with
    engine,         \* progress of the call of generate()
    outcome,        \* how main() ended
    interrupted,    \* did sig_int_handler run
    ck,             \* coercer under study
    cx,             \* its raw input
    cr1,            \* result of the first application
    cr2             \* result of the second application

vars == <<pc, pyprojectFile, tomlSection, cli, pyproject, args, fieldValues,
          config,
          streams, extra, aliasesVar, stdinRead, generateArgs, engine,
          outcome, interrupted, ck, cx, cr1, cr2>>

pipeVars == <<pyprojectFile, tomlSection, cli, pyproject, args, fieldValues,
          config,
              streams, extra, aliasesVar, stdinRead, generateArgs, engine,
              outcome, interrupted>>

coerceVars == <<ck, cx, cr1, cr2>>

----------------------------------------------------------------------------
(* Bounds *)

MaxSupplied == 3
MaxHeaders == 2
MaxHeaderChars == 4

----------------------------------------------------------------------------
(* Python values *)

None == [t |-> "None"]
Bool(b) == [t |-> "bool", v |-> b]
Str(s) == [t |-> "str", v |-> s]
List(s) == [t |-> "list", v |-> s]
Tuple(a, b) == [t |-> "tuple", v |-> <<a, b>>]
PathV(s) == [t |-> "Path", v |-> s]
TextIO(s) == [t |-> "TextIOBase", v |-> s]
ParseResult(scheme, rest) == [t |-> "ParseResult", v |-> <<scheme, rest>>]
PythonVersion(s) == [t |-> "PythonVersion", v |-> s]
NoValue == [t |-> "unset"]

Stdin == TextIO(<<"<stdin>">>)

\* bool(value): None, False and empty text or lists are falsy.
Truthy(value) ==
    CASE value.t = "None" -> FALSE
      [] value.t = "bool" -> value.v
      [] value.t \in {"str", "list"} -> value.v # <<>>
      [] OTHER -> TRUE

\* Result of a call: a value, or a raised exception.
Return(value) == [ok |-> TRUE, val |-> value]
Raise(exc, about) == [ok |-> FALSE, exc |-> exc, about |-> about]

Exit == [OK |-> 0, ERROR |-> 1, KeyboardInterrupt |-> 2]

PY_36 == PythonVersion(<<"3.6">>)
PY_37 == PythonVersion(<<"3.7">>)

----------------------------------------------------------------------------
(* Path(value).expanduser().resolve() *)

Home == <<"/", "home">>
Cwd == <<"/", "work">>

expanduser(segs) ==
    IF segs # <<>> /\ Head(segs) = "~" THEN Home \o Tail(segs) ELSE segs

RECURSIVE Collapse(_, _)
Collapse(done, rest) ==
    IF rest = <<>> THEN done
    ELSE IF Head(rest) = "." THEN Collapse(done, Tail(rest))
    ELSE IF Head(rest) = ".."
         THEN Collapse(IF Len(done) > 1 THEN SubSeq(done, 1, Len(done) - 1)
                       ELSE done, Tail(rest))
    ELSE Collapse(Append(done, Head(rest)), Tail(rest))

resolve(segs) ==
    LET abs == IF segs # <<>> /\ Head(segs) = "/" THEN segs ELSE Cwd \o segs
    IN  Collapse(<<"/">>, Tail(abs))

ResolvedPath(value) == PathV(resolve(expanduser(value.v)))

----------------------------------------------------------------------------
(* Config validators *)

\* exists: whether open("rt") finds a readable file.
validate_file(value, exists) ==
    IF value.t = "None" \/ value.t = "TextIOBase" THEN Return(value)
    ELSE IF exists THEN Return(TextIO(ResolvedPath(value).v))
    ELSE Raise("OSError", value)

validate_path(value) ==
    IF value.t = "None" \/ value.t = "Path" THEN Return(value)
    ELSE Return(ResolvedPath(value))

is_url(s) ==
    /\ Len(s) >= 2
    /\ s[1] \in {"http", "https"}
    /\ s[2] = "://"

urlparse(s) == ParseResult(s[1], SubSeq(s, 3, Len(s)))

validate_url(value) ==
    IF value.t = "str" /\ is_url(value.v) THEN Return(urlparse(value.v))
    ELSE IF value.t = "None" THEN Return(None)
    ELSE Raise("Error", value)

\* index of the first ":" of s, 0 when there is none
FirstColon(s) ==
    IF \E i \in 1..Len(s) : s[i] = ":"
    THEN CHOOSE i \in 1..Len(s) :
            s[i] = ":" /\ \A j \in 1..(i - 1) : s[j] # ":"
    ELSE 0

RECURSIVE lstrip(_)
lstrip(s) ==
    IF s # <<>> /\ Head(s) = " " THEN lstrip(Tail(s)) ELSE s

validate_each_item_NoStrip(each_item) ==
    IF each_item.t = "str"
    THEN LET i == FirstColon(each_item.v)
         IN  IF i = 0 THEN Raise("Error", each_item)
             ELSE Return(Tuple(SubSeq(each_item.v, 1, i - 1),
                               SubSeq(each_item.v, i + 1, Len(each_item.v))))
    ELSE Return(each_item)

validate_each_item(each_item) ==
    IF each_item.t = "str"
    THEN LET i == FirstColon(each_item.v)
         IN  IF i = 0 THEN Raise("Error", each_item)
             ELSE Return(Tuple(SubSeq(each_item.v, 1, i - 1),
                               lstrip(SubSeq(each_item.v, i + 1,
                                             Len(each_item.v)))))
    ELSE Return(each_item)

validate_http_headers(value) ==
    IF value.t = "list"
    THEN LET items == [i \in 1..Len(value.v) |-> validate_each_item(value.v[i])]
         IN  IF \E i \in 1..Len(items) : ~items[i].ok
             THEN items[CHOOSE i \in 1..Len(items) :
                          ~items[i].ok /\ \A j \in 1..(i - 1) : items[j].ok]
             ELSE Return(List([i \in 1..Len(items) |-> items[i].val]))
    ELSE Return(value)

validate_use_generic_container_types(values) ==
    IF Truthy(values["use_generic_container_types"])
       /\ values["target_python_version"] = PY_36
    THEN Raise("Error", PY_36)
    ELSE Return(values)

\* values.setdefault('field_constraints', True): a present value is kept
_validate_use_annotated_SetDefault(values) ==
    IF Truthy(values["use_annotated"])
       /\ "field_constraints" \notin DOMAIN values
    THEN [values EXCEPT !["field_constraints"] = Bool(TRUE)]
    ELSE values

_validate_use_annotated(values) ==
    IF Truthy(values["use_annotated"])
    THEN [values EXCEPT !["field_constraints"] = Bool(TRUE)]
    ELSE values

validate_root(values) == Return(_validate_use_annotated(values))

----------------------------------------------------------------------------
(* The coercers applied to a raw value, and again to their own result *)

Chars == {"a", ":", " "}

\* the strings of at most n characters
HeaderStrings(n) == UNION {[1..m -> Chars] : m \in 0..n}

\* the lists of at most n strings that hold at most budget characters
RECURSIVE HeaderLists(_, _)
HeaderLists(n, budget) ==
    IF n = 0 THEN {<<>>}
    ELSE {<<>>} \cup
         UNION {{<<s>> \o l : l \in HeaderLists(n - 1, budget - Len(s))} :
                s \in HeaderStrings(budget)}

RawPaths == {<<"a.json">>, <<"~", "a.json">>, <<".", "d", "..", "a.json">>,
             <<"/", "work", "a.json">>}

RawUrls == {<<"https", "://", "h", "/s">>, <<"http", "://", "h">>,
            <<"ftp", "://", "h">>, <<"h">>}

Coercers == {"validate_file", "validate_path", "validate_url",
             "validate_http_headers"}

CoerceInputs(k) ==
    CASE k = "validate_file" ->
            {None, Stdin} \cup {Str(p) : p \in RawPaths}
      [] k = "validate_path" ->
            {None, PathV(<<"/", "work", "a.json">>)}
                \cup {Str(p) : p \in RawPaths}
      [] k = "validate_url" ->
            {None, ParseResult("https", <<"h">>)} \cup {Str(u) : u \in RawUrls}
      [] k = "validate_http_headers" ->
            {None, List(<<Tuple(<<"a">>, <<"b">>)>>)}
                \cup {List([i \in 1..Len(l) |-> Str(l[i])]) :
                         l \in HeaderLists(MaxHeaders, MaxHeaderChars)}

Coerce(k, value, exists) ==
    CASE k = "validate_file" -> validate_file(value, exists)
      [] k = "validate_path" -> validate_path(value)
      [] k = "validate_url" -> validate_url(value)
      [] k = "validate_http_headers" -> validate_http_headers(value)

NotRun == [ok |-> FALSE, exc |-> "not run", about |-> None]

InitPipeIdle ==
    /\ pyprojectFile = FALSE
    /\ tomlSection = <<>>
    /\ cli = <<>>
    /\ pyproject = <<>>
    /\ args = <<>>
    /\ fieldValues = NoValue
    /\ config = NoValue
    /\ streams = <<>>
    /\ extra = NoValue
    /\ aliasesVar = NoValue
    /\ stdinRead = FALSE
    /\ generateArgs = NoValue
    /\ engine = "not called"
    /\ outcome = NoValue
    /\ interrupted = FALSE

InitCoerce ==
    /\ pc = "raw"
    /\ ck \in Coercers
    /\ cx \in CoerceInputs(ck)
    /\ cr1 = NotRun
    /\ cr2 = NotRun
    /\ InitPipeIdle

CoerceFirst ==
    /\ pc = "raw"
    /\ \E exists \in BOOLEAN : cr1' = Coerce(ck, cx, exists)
    /\ pc' = "once"
    /\ UNCHANGED <<ck, cx, cr2, pipeVars>>

CoerceSecond ==
    /\ pc = "once"
    /\ cr1.ok
    /\ \E exists \in BOOLEAN : cr2' = Coerce(ck, cr1.val, exists)
    /\ pc' = "twice"
    /\ UNCHANGED <<ck, cx, cr1, pipeVars>>

NextCoerce == CoerceFirst \/ CoerceSecond

SpecCoerce == InitCoerce /\ [][NextCoerce]_vars

----------------------------------------------------------------------------
(* C8: coercion is idempotent for every option kind: for every raw value   *)
(* a coercer accepts, applying the coercer to its own result succeeds and  *)
(* returns an identical value.                                             *)
C8_CoercionIdempotent ==
    pc = "twice" => cr2.ok /\ cr2.val = cr1.val

(* C9: a list of header strings coerces to a list of the same length and   *)
(* order whose entries are (text before the first colon, text after it     *)
(* without leading whitespace); an entry without a colon makes coercion    *)
(* fail with an Error naming that entry.                                   *)
HasColon(s) == \E i \in 1..Len(s) : s[i] = ":"

IsHeaderPair(s, pair) ==
    \E i \in 1..Len(s) :
        /\ s[i] = ":"
        /\ \A j \in 1..(i - 1) : s[j] # ":"
        /\ pair.v[1] = SubSeq(s, 1, i - 1)
        /\ \E k \in i..Len(s) :
              /\ \A j \in (i + 1)..k : s[j] = " "
              /\ pair.v[2] = SubSeq(s, k + 1, Len(s))
              /\ (k < Len(s) => s[k + 1] # " ")

C9_HeaderCoercion ==
    (/\ pc # "raw"
     /\ ck = "validate_http_headers"
     /\ cx.t = "list"
     /\ \A i \in 1..Len(cx.v) : cx.v[i].t = "str")
    => IF \A i \in 1..Len(cx.v) : HasColon(cx.v[i].v)
       THEN /\ cr1.ok
            /\ cr1.val.t = "list"
            /\ Len(cr1.val.v) = Len(cx.v)
            /\ \A i \in 1..Len(cx.v) :
                  /\ cr1.val.v[i].t = "tuple"
                  /\ IsHeaderPair(cx.v[i].v, cr1.val.v[i])
       ELSE /\ ~cr1.ok
            /\ cr1.exc = "Error"
            /\ \E i \in 1..Len(cx.v) :
                  ~HasColon(cx.v[i].v) /\ cr1.about = cx.v[i]

C9_Witness ==
    /\ pc = "once"
    /\ ck = "validate_http_headers"
    /\ cx = List(<<Str(<<"a", ":", " ">>), Str(<<":">>)>>)
    /\ cr1.ok

----------------------------------------------------------------------------
(* Options of main() *)

Words ==
    [version |-> <<"version">>,
     input |-> <<"input">>,
     url |-> <<"url">>,
     http_headers |-> <<"http", "headers">>,
     field_constraints |-> <<"field", "constraints">>,
     use_annotated |-> <<"use", "annotated">>,
     use_generic_container_types |-> <<"use", "generic", "container", "types">>,
     target_python_version |-> <<"target", "python", "version">>,
     extra_template_data |-> <<"extra", "template", "data">>,
     aliases |-> <<"aliases">>]

Options == DOMAIN Words

\* the words of a key joined by a separator, as a token sequence
RECURSIVE Join(_, _)
Join(words, sep) ==
    IF Len(words) <= 1 THEN words
    ELSE <<Head(words), sep>> \o Join(Tail(words), sep)

\* the name of each option as main() and Config spell it
Names == [o \in DOMAIN Words |-> Join(Words[o], "_")]

Name(o) == Names[o]

\* the typer.Option defaults of main() when the project file is silent
Default(o) ==
    CASE o = "input" -> Stdin
      [] o \in {"url", "http_headers", "extra_template_data", "aliases"} -> None
      [] o = "target_python_version" -> PY_37
      [] OTHER -> Bool(FALSE)

GoodHeaders == List(<<Str(<<"a", ":", " ", "b", ":", "c">>)>>)
BadHeaders == List(<<Str(<<"a", ":", "b">>), Str(<<"b">>)>>)

\* raw values the project file or the command line can give an option
RawValues(o) ==
    CASE o = "input" -> <<Str(<<"in.json">>)>>
      [] o = "url" -> <<Str(<<"https", "://", "h">>), Str(<<"ftp", "://", "h">>)>>
      [] o = "http_headers" -> <<GoodHeaders, BadHeaders>>
      [] o = "target_python_version" -> <<Str(<<"3.6">>), Str(<<"3.7">>)>>
      [] o = "extra_template_data" -> <<Str(<<"e.json">>)>>
      [] o = "aliases" -> <<Str(<<"~", "a.json">>)>>
      [] o \in {"version", "use_generic_container_types"} -> <<Bool(TRUE)>>
      [] OTHER -> <<Bool(TRUE), Bool(FALSE)>>

\* the key of option o in pyproject.toml, spelled with separator sep
RawKey(o, sep) == Join(Words[o], sep)

OptionOfKey(k) == CHOOSE o \in Options : k \in {RawKey(o, "-"), RawKey(o, "_")}

\* the mappings from the keys of optionOf to a raw value of each key's
\* option; optionOf maps a key to its option
Settings(optionOf) ==
    {[k \in DOMAIN optionOf |-> LET vs == RawValues(optionOf[k])
                                IN  IF k \in T THEN vs[2] ELSE vs[1]] :
        T \in SUBSET {k \in DOMAIN optionOf : Len(RawValues(optionOf[k])) > 1}}

\* the [tool.datamodel-codegen] tables with n keys, all keys of a table
\* spelled with hyphens or all with underscores
Tables ==
    [n \in 0..MaxSupplied |->
        UNION {Settings([k \in {RawKey(o, sep) : o \in S} |-> OptionOfKey(k)]) :
               S \in {S \in SUBSET Options : Cardinality(S) = n},
               sep \in {"-", "_"}}]

\* the command lines that give at most n options
CommandLines ==
    [n \in 0..MaxSupplied |->
        UNION {Settings([o \in S |-> o]) :
               S \in {S \in SUBSET Options : Cardinality(S) <= n}}]

----------------------------------------------------------------------------
(* Module level: the [tool.datamodel-codegen] section becomes `pyproject` *)

ReplaceHyphens_Unchanged(k) == k

\* k.replace('-', '_')
ReplaceHyphens(k) == [i \in 1..Len(k) |-> IF k[i] = "-" THEN "_" ELSE k[i]]

\* the dict comprehension over the items of the table; no two keys of a
\* table normalise to the same name
PyprojectDict(table) ==
    [key \in {ReplaceHyphens(k) : k \in DOMAIN table} |->
        table[CHOOSE k \in DOMAIN table : ReplaceHyphens(k) = key]]

\* pyproject.get(name, default)
Get(dict, name, default) ==
    IF name \in DOMAIN dict THEN dict[name] ELSE default

InitMain ==
    /\ pc = "import"
    /\ pyprojectFile \in BOOLEAN
    /\ \E n \in 0..MaxSupplied :
          /\ tomlSection \in Tables[IF pyprojectFile THEN n ELSE 0]
          /\ cli \in CommandLines[MaxSupplied - n]
    /\ pyproject = <<>>
    /\ args = NoValue
    /\ fieldValues = NoValue
    /\ config = NoValue
    /\ streams = [o \in {"extra_template_data", "aliases"} |-> "unopened"]
    /\ extra = NoValue
    /\ aliasesVar = NoValue
    /\ stdinRead = FALSE
    /\ generateArgs = NoValue
    /\ engine = "not called"
    /\ outcome = NoValue
    /\ interrupted = FALSE
    /\ ck = "none"
    /\ cx = None
    /\ cr1 = NotRun
    /\ cr2 = NotRun

LoadPyproject ==
    /\ pc = "import"
    /\ pyproject' = IF pyprojectFile THEN PyprojectDict(tomlSection) ELSE <<>>
    /\ pc' = "options"
    /\ UNCHANGED <<pyprojectFile, tomlSection, cli, args, fieldValues, config,
                   streams, extra, aliasesVar, stdinRead, generateArgs, outcome,
                   interrupted, engine,
                   coerceVars>>

\* typer.Option(pyproject.get(name, default)): the command line value when
\* the option is given, else the declared default.
OptionValue(o) ==
    IF o \in DOMAIN cli THEN cli[o] ELSE Get(pyproject, Name(o), Default(o))

ParseOptions ==
    /\ pc = "options"
    /\ args' = [o \in Options |-> OptionValue(o)]
    /\ pc' = "main"
    /\ UNCHANGED <<pyprojectFile, tomlSection, cli, pyproject, fieldValues, config,
                   streams, extra, aliasesVar, stdinRead, generateArgs, outcome,
                   interrupted, engine,
                   coerceVars>>

----------------------------------------------------------------------------
(* main() *)

Returned(code) == [kind |-> "return", code |-> code, exc |-> "none"]
\* exit(code): SystemExit leaves main() and ends the process with code
Exited(code) == [kind |-> "exit", code |-> code, exc |-> "SystemExit"]
\* an exception no handler of main() catches: the interpreter prints the
\* traceback and ends with status 1
Raised(exc) == [kind |-> "raise", code |-> 1, exc |-> exc]

Resources == {"extra_template_data", "aliases"}

sig_int_handler_KeyboardInterrupt ==
    /\ pc \in {"import", "options", "main", "validate", "root", "black",
               "extra", "aliases", "generate", "generating"}
    /\ outcome' = Exited(Exit.KeyboardInterrupt)
    /\ interrupted' = TRUE
    /\ pc' = "done"
    /\ UNCHANGED <<pyprojectFile, tomlSection, cli, pyproject, args,
                   fieldValues, config, streams, extra, aliasesVar, stdinRead,
                   generateArgs, engine, coerceVars>>

sig_int_handler ==
    /\ pc \in {"import", "options", "main", "validate", "root", "black",
               "extra", "aliases", "generate", "generating"}
    /\ outcome' = Exited(Exit.OK)
    /\ interrupted' = TRUE
    /\ pc' = "done"
    /\ UNCHANGED <<pyprojectFile, tomlSection, cli, pyproject, args, fieldValues,
                   config, streams, extra, aliasesVar, stdinRead,
                   generateArgs, engine,
                   coerceVars>>

CheckVersion ==
    /\ pc = "main"
    /\ IF Truthy(args["version"])
       THEN /\ outcome' = Exited(0)
            /\ pc' = "done"
       ELSE /\ pc' = "validate"
            /\ UNCHANGED outcome
    /\ UNCHANGED <<pyprojectFile, tomlSection, cli, pyproject, args, fieldValues,
                   config, streams, extra, aliasesVar, stdinRead,
                   generateArgs, interrupted, engine,
                   coerceVars>>

\* Lines 328-329 build `config` with Config.parse_obj(pyproject_toml) and
\* config.merge_args(namespace). The file defines neither the two names nor
\* merge_args, and Config declares no fields; the construction is modelled
\* as the validation of the merged option values of main(): each supplied
\* value goes through the validator of its field, then the root validators
\* run, and the first exception ends the construction.

\* the order in which Config validates its fields: that of main()'s options
FieldOrder == <<"input", "url", "http_headers", "extra_template_data",
                "aliases", "target_python_version">>

\* the enum field: the member whose value is the raw string
CoerceEnum(value) ==
    IF value.t = "str" THEN Return(PythonVersion(value.v)) ELSE Return(value)

ValidateField(o, value, exists) ==
    CASE o = "input" -> validate_path(value)
      [] o = "url" -> validate_url(value)
      [] o = "http_headers" -> validate_http_headers(value)
      [] o \in Resources -> validate_file(value, exists[o])
      [] o = "target_python_version" -> CoerceEnum(value)
      [] OTHER -> Return(value)

\* an option the project file or the command line gives a value
Supplied(o) == o \in DOMAIN cli \/ Name(o) \in DOMAIN pyproject

\* Field validation from field i on. A validator runs on a supplied value
\* only; the first exception ends validation. opened: the resource options
\* whose stream validate_file opened on the way.
RECURSIVE ValidateFields(_, _, _, _)
ValidateFields(vals, i, exists, opened) ==
    IF i > Len(FieldOrder) THEN [ok |-> TRUE, val |-> vals, opened |-> opened]
    ELSE LET o == FieldOrder[i]
             r == ValidateField(o, vals[o], exists)
         IN  IF ~Supplied(o) THEN ValidateFields(vals, i + 1, exists, opened)
             ELSE IF ~r.ok
                  THEN [ok |-> FALSE, exc |-> r.exc, opened |-> opened]
             ELSE ValidateFields([vals EXCEPT ![o] = r.val], i + 1, exists,
                                 IF o \in Resources /\ vals[o].t = "str"
                                 THEN opened \cup {o} ELSE opened)

\* try: config = ... except Error: return Exit.ERROR
ConfigError(exc) ==
    IF exc = "Error" THEN Returned(Exit.ERROR) ELSE Raised(exc)

ParseObj ==
    /\ pc = "validate"
    /\ \E exists \in [Resources -> BOOLEAN] :
          LET r == ValidateFields([o \in Options \ {"version"} |-> args[o]],
                                  1, exists, {})
          IN  /\ streams' = [o \in Resources |->
                               IF o \in r.opened THEN "open" ELSE streams[o]]
              /\ IF r.ok
                 THEN /\ fieldValues' = r.val
                      /\ pc' = "root"
                      /\ UNCHANGED outcome
                 ELSE /\ outcome' = ConfigError(r.exc)
                      /\ pc' = "done"
                      /\ UNCHANGED fieldValues
    /\ UNCHANGED <<pyprojectFile, tomlSection, cli, pyproject, args, config,
                   extra, aliasesVar, stdinRead, generateArgs, interrupted,
                   engine,
                   coerceVars>>

\* the root validators, in the order of their definition
RootValidators(vals) ==
    LET r == validate_use_generic_container_types(vals)
    IN  IF r.ok THEN validate_root(r.val) ELSE r

ValidateRoot ==
    /\ pc = "root"
    /\ LET r == RootValidators(fieldValues)
       IN  IF r.ok
           THEN /\ config' = r.val
                /\ pc' = "black"
                /\ UNCHANGED outcome
           ELSE /\ outcome' = ConfigError(r.exc)
                /\ pc' = "done"
                /\ UNCHANGED config
    /\ UNCHANGED <<pyprojectFile, tomlSection, cli, pyproject, args, fieldValues,
                   streams, extra, aliasesVar, stdinRead, generateArgs,
                   interrupted, engine,
                   coerceVars>>

CheckBlack ==
    /\ pc = "black"
    /\ \E is_supported_in_black \in BOOLEAN :
          IF is_supported_in_black
          THEN /\ pc' = "extra"
               /\ UNCHANGED outcome
          ELSE /\ outcome' = Returned(Exit.ERROR)
               /\ pc' = "done"
    /\ UNCHANGED <<pyprojectFile, tomlSection, cli, pyproject, args, fieldValues,
                   config, streams, extra, aliasesVar, stdinRead,
                   generateArgs, interrupted, engine,
                   coerceVars>>

----------------------------------------------------------------------------
(* JSON resources *)

Number(n) == [t |-> "int", v |-> n]
Dict(items) == [t |-> "dict", v |-> items]
DefaultDict(items) == [t |-> "defaultdict", v |-> items]
Item(key, value) == [k |-> Str(<<key>>), val |-> value]

\* what json.load(data) can return for an alias file
AliasDocuments ==
    {Dict(<<>>),
     Dict(<<Item("from", Str(<<"to">>))>>),
     Dict(<<Item("a", Number(1))>>),
     Dict(<<Item("from", Str(<<"to">>)), Item("a", Dict(<<>>))>>),
     List(<<Str(<<"from">>)>>),
     Str(<<"from">>),
     Number(1)}

\* what json.load(data) can return for an extra template data file
TemplateDocuments ==
    {Dict(<<Item("Model", Dict(<<Item("key", Str(<<"x">>))>>))>>),
     Dict(<<>>),
     List(<<Dict(<<>>)>>)}

\* object_hook=lambda d: defaultdict(dict, **d), applied to every object
RECURSIVE ObjectHook(_)
ObjectHook(doc) ==
    CASE doc.t = "dict" ->
            DefaultDict([i \in 1..Len(doc.v) |->
                            [k |-> doc.v[i].k, val |-> ObjectHook(doc.v[i].val)]])
      [] doc.t = "list" -> List([i \in 1..Len(doc.v) |-> ObjectHook(doc.v[i])])
      [] OTHER -> doc

\* json.load(data): a document, a syntax error, or a failure to decode the
\* bytes of the file
JsonLoad(documents) ==
    {Return(d) : d \in documents}
        \cup {Raise("JSONDecodeError", None), Raise("UnicodeDecodeError", None)}

\* except json.JSONDecodeError: return Exit.ERROR
LoadError(exc) ==
    IF exc = "JSONDecodeError" THEN Returned(Exit.ERROR) ELSE Raised(exc)

\* leaving `with config.<o> as data:` closes the stream
Close(o) == [streams EXCEPT ![o] = "closed"]

LoadExtraTemplateData ==
    /\ pc = "extra"
    /\ IF config["extra_template_data"].t = "None"
       THEN /\ extra' = None
            /\ pc' = "aliases"
            /\ UNCHANGED <<streams, outcome>>
       ELSE \E r \in JsonLoad(TemplateDocuments) :
              /\ streams' = Close("extra_template_data")
              /\ IF r.ok
                 THEN /\ extra' = ObjectHook(r.val)
                      /\ pc' = "aliases"
                      /\ UNCHANGED outcome
                 ELSE /\ outcome' = LoadError(r.exc)
                      /\ pc' = "done"
                      /\ UNCHANGED extra
    /\ UNCHANGED <<pyprojectFile, tomlSection, cli, pyproject, args,
                   fieldValues, config, aliasesVar, stdinRead, generateArgs,
                   interrupted, engine,
                   coerceVars>>

IsStringMapping_KeysOnly(doc) ==
    /\ doc.t = "dict"
    /\ \A i \in 1..Len(doc.v) : doc.v[i].k.t = "str"

\* isinstance(aliases, dict) and all(isinstance(k, str) and
\* isinstance(v, str) for k, v in aliases.items())
IsStringMapping(doc) ==
    /\ doc.t = "dict"
    /\ \A i \in 1..Len(doc.v) : doc.v[i].k.t = "str" /\ doc.v[i].val.t = "str"

LoadAliases ==
    /\ pc = "aliases"
    /\ IF config["aliases"].t = "None"
       THEN /\ aliasesVar' = None
            /\ pc' = "generate"
            /\ UNCHANGED <<streams, outcome>>
       ELSE \E r \in JsonLoad(AliasDocuments) :
              /\ streams' = Close("aliases")
              /\ IF ~r.ok
                 THEN /\ outcome' = LoadError(r.exc)
                      /\ pc' = "done"
                      /\ UNCHANGED aliasesVar
                 ELSE /\ aliasesVar' = r.val
                      /\ IF IsStringMapping(r.val)
                         THEN /\ pc' = "generate"
                              /\ UNCHANGED outcome
                         ELSE /\ outcome' = Returned(Exit.ERROR)
                              /\ pc' = "done"
    /\ UNCHANGED <<pyprojectFile, tomlSection, cli, pyproject, args,
                   fieldValues, config, extra, stdinRead, generateArgs,
                   interrupted, engine,
                   coerceVars>>

----------------------------------------------------------------------------
(* The call of generate() *)

StdinContent == Str(<<"{", "}">>)

\* config.url or config.input or sys.stdin.read()
InputSource(cfg) ==
    IF Truthy(cfg["url"]) THEN cfg["url"]
    ELSE IF Truthy(cfg["input"]) THEN cfg["input"]
    ELSE StdinContent

CallGenerate ==
    /\ pc = "generate"
    /\ stdinRead' = (~Truthy(config["url"]) /\ ~Truthy(config["input"]))
    /\ generateArgs' =
          [input_ |-> InputSource(config),
           target_python_version |-> config["target_python_version"],
           field_constraints |-> config["field_constraints"],
           extra_template_data |-> extra,
           aliases |-> aliasesVar,
           use_generic_container_types |->
               config["use_generic_container_types"],
           http_headers |-> config["http_headers"],
           use_annotated |-> config["use_annotated"]]
    /\ engine' = "running"
    /\ pc' = "generating"
    /\ UNCHANGED <<pyprojectFile, tomlSection, cli, pyproject, args,
                   fieldValues, config, streams, extra, aliasesVar, outcome,
                   interrupted, coerceVars>>

\* how generate() ends: it returns, or raises one of the exceptions main()
\* tells apart
GenerateResults == {"returns", "InvalidClassNameError", "Error", "Exception"}

GenerateReturns ==
    /\ pc = "generating"
    /\ \E result \in GenerateResults :
          /\ engine' = result
          /\ outcome' = IF result = "returns" THEN Returned(Exit.OK)
                        ELSE Returned(Exit.ERROR)
    /\ pc' = "done"
    /\ UNCHANGED <<pyprojectFile, tomlSection, cli, pyproject, args,
                   fieldValues, config, streams, extra, aliasesVar, stdinRead,
                   generateArgs, interrupted, coerceVars>>

Next ==
    \/ LoadPyproject
    \/ ParseOptions
    \/ CheckVersion
    \/ ParseObj
    \/ ValidateRoot
    \/ CheckBlack
    \/ LoadExtraTemplateData
    \/ LoadAliases
    \/ CallGenerate
    \/ GenerateReturns
    \/ sig_int_handler

Spec == InitMain /\ [][Next]_vars

----------------------------------------------------------------------------
(* Properties of main() *)

\* key k of the project file is the name of option o once hyphens count as
\* underscores
SameKey(k, o) ==
    LET name == Names[o]
    IN  /\ Len(k) = Len(name)
        /\ \A i \in 1..Len(k) :
              k[i] = name[i] \/ (k[i] = "-" /\ name[i] = "_")

FileValues(o) ==
    IF pyprojectFile
    THEN {tomlSection[k] : k \in {k \in DOMAIN tomlSection : SameKey(k, o)}}
    ELSE {}

\* the raw values precedence allows for option o
ByPrecedence(o) ==
    IF o \in DOMAIN cli THEN {cli[o]}
    ELSE IF FileValues(o) # {} THEN FileValues(o)
    ELSE {Default(o)}

Configured(o) == o \in DOMAIN cli \/ FileValues(o) # {}

\* the typed form of a raw value of option o
Typed(o, raw) ==
    CASE raw.t = "str" /\ o = "input" -> ResolvedPath(raw)
      [] raw.t = "str" /\ o = "url" -> urlparse(raw.v)
      [] raw.t = "str" /\ o \in Resources -> TextIO(ResolvedPath(raw).v)
      [] raw.t = "str" /\ o = "target_python_version" -> PythonVersion(raw.v)
      [] raw.t = "list" /\ o = "http_headers" -> validate_http_headers(raw).val
      [] OTHER -> raw

HandedOver ==
    generateArgs # NoValue =>
        \A o \in {"target_python_version", "field_constraints",
                  "use_generic_container_types", "http_headers",
                  "use_annotated"} : generateArgs[o] = config[o]

(* C1 as stated: for every option, the value in the configuration main()   *)
(* uses and hands to generate() is the command line value if one was       *)
(* given, else the project file value if the hyphen-normalized key is in   *)
(* the table, else the built-in default.                                   *)
C1_PrecedenceEveryOption ==
    /\ args # NoValue => args["version"] \in ByPrecedence("version")
    /\ config # NoValue =>
          \A o \in DOMAIN config :
              \E raw \in ByPrecedence(o) : config[o] = Typed(o, raw)
    /\ HandedOver

(* C1 amended: the same for every option but field_constraints, which is   *)
(* true whenever use_annotated is enabled and follows precedence           *)
(* otherwise.                                                              *)
C1_PrecedenceButForcedConstraints ==
    /\ args # NoValue => args["version"] \in ByPrecedence("version")
    /\ config # NoValue =>
          \A o \in DOMAIN config :
              IF o = "field_constraints" /\ Truthy(config["use_annotated"])
              THEN config[o] = Bool(TRUE)
              ELSE \E raw \in ByPrecedence(o) : config[o] = Typed(o, raw)
    /\ HandedOver

C1_Witness ==
    /\ engine = "running"
    /\ pyprojectFile
    /\ <<"target", "-", "python", "-", "version">> \in DOMAIN tomlSection
    /\ "target_python_version" \notin DOMAIN cli
    /\ "use_annotated" \in DOMAIN cli
    /\ <<"use", "-", "annotated">> \in DOMAIN tomlSection
    /\ cli["use_annotated"] # tomlSection[<<"use", "-", "annotated">>]
    /\ generateArgs.target_python_version = PY_36

(* C2: when use_annotated is enabled in the merged input the resolved      *)
(* configuration has field_constraints = true, also for an explicit        *)
(* false, and that value is passed to generate(); when use_annotated is    *)
(* not enabled field_constraints keeps its merged value.                   *)
C2_AnnotatedForcesConstraints ==
    /\ config # NoValue =>
          IF Truthy(args["use_annotated"])
          THEN config["field_constraints"] = Bool(TRUE)
          ELSE config["field_constraints"] = args["field_constraints"]
    /\ generateArgs # NoValue =>
          generateArgs.field_constraints = config["field_constraints"]

C2_Witness ==
    /\ engine = "running"
    /\ "field_constraints" \in DOMAIN cli
    /\ cli["field_constraints"] = Bool(FALSE)
    /\ Truthy(args["use_annotated"])
    /\ generateArgs.field_constraints = Bool(TRUE)

(* C3: for every input with use_generic_container_types enabled and        *)
(* target_python_version PY_36, validation fails with an Error, no         *)
(* resolved configuration exists, main() returns Exit.ERROR and generate() *)
(* is never called; for every other target version the rule does not fail. *)
ValidationReached ==
    /\ ~interrupted
    /\ args # NoValue
    /\ ~Truthy(args["version"])
    /\ pc \notin {"main", "validate", "root"}

C3_GenericContainersRejected ==
    (ValidationReached /\ Truthy(args["use_generic_container_types"]))
    => IF args["target_python_version"] = Str(<<"3.6">>)
       THEN /\ pc = "done"
            /\ outcome = Returned(1)
            /\ config = NoValue
            /\ engine = "not called"
       ELSE fieldValues # NoValue => config # NoValue

(* C4: an alias document that is not an object of string values makes      *)
(* main() return Exit.ERROR without calling generate(); an object of       *)
(* string values is passed unchanged to generate().                        *)
C4_AliasShape ==
    aliasesVar \notin {NoValue, None}
    => IF /\ aliasesVar.t = "dict"
          /\ \A i \in 1..Len(aliasesVar.v) : aliasesVar.v[i].val.t = "str"
       THEN generateArgs # NoValue => generateArgs.aliases = aliasesVar
       ELSE /\ pc = "done"
            /\ outcome = Returned(1)
            /\ engine = "not called"

C4_Witness ==
    /\ pc = "done"
    /\ aliasesVar = Dict(<<Item("a", Number(1))>>)
    /\ outcome = Returned(1)

(* C5: every invocation of main() ends in one terminal outcome; absent an  *)
(* interrupt the exit code is 0 exactly when the version flag was set or   *)
(* generate() returned normally and 1 otherwise, and no failure leaves     *)
(* main() as an exception it did not map.                                  *)
C5_EveryFailureMapped ==
    (pc = "done" /\ ~interrupted)
    => /\ outcome.kind \in {"return", "exit"}
       /\ outcome.code \in {0, 1}
       /\ outcome.code = 0 <=> (Truthy(args["version"]) \/ engine = "returns")

(* C6: an interrupt in any pipeline state ends the process with exit code  *)
(* 0, never 1 or 2, and no later stage runs.                               *)
C6_InterruptExitsZero ==
    /\ [](pc # "done" => ENABLED sig_int_handler)
    /\ [][/\ ~interrupted
          /\ interrupted' => /\ outcome' = Exited(0)
                             /\ pc' = "done"]_vars

C6_Witness ==
    /\ interrupted
    /\ outcome.code = 0
    /\ streams["aliases"] = "open"
    /\ config # NoValue

(* C7: every resource stream the pipeline opens is released on every exit  *)
(* path of main(): in no terminal state is a stream still open.            *)
C7_StreamsReleased ==
    (pc = "done" /\ ~interrupted)
    => \A o \in Resources : streams[o] # "open"

(* C10: generate() gets the URL when one is configured, else the           *)
(* configured input path, else the content read from standard input; with  *)
(* no options and no project file the content of standard input is handed  *)
(* over.                                                                   *)
C10_DocumentSource ==
    generateArgs # NoValue
    => generateArgs.input_ =
          IF Configured("url") THEN config["url"]
          ELSE IF Configured("input") THEN config["input"]
          ELSE StdinContent

====
